---- MODULE Spec2Model ----
(***************************************************************************)
(* Model of the libvMI runtime engine (src/ip2vf/libvMI/libvMI.cpp):       *)
(* the process-wide frame pool g_vMIFramesArray with its handle counter    *)
(* and cap, libvmi_frame_create_ext, the configuration parser, and the     *)
(* module registry g_Ip2VfModules with its pin accessors, libvMI_send and  *)
(* libvMI_close.                                                           *)
(*                                                                         *)
(* A pool slot (tFrameItem) is the record [handle, ref, free]: the handle  *)
(* of the tuple, the reference counter of the CvMIFrame the tuple points   *)
(* to, and the free flag of the tuple.  The CvMIFrame object is never      *)
(* deleted or replaced, so its counter lives as long as the slot.          *)
(***************************************************************************)
EXTENDS Integers, Sequences, FiniteSets, TLC

VARIABLES
    frames,       \* g_vMIFramesArray: sequence of slots, in insertion order
    nextHandle,   \* g_vMIFramesNextHandle
    maxFrames,    \* g_vMIMaxFramesInList
    modules,      \* g_Ip2VfModules: sequence of module entries
    call,         \* the last call: [op, arg, ret, after, mod, pin]; after tells
                  \* whether the call before it was the addref of the same
                  \* handle or the create that returned it
    pre,          \* state at the entry to the last call: [frames, next, modules]
    issued,       \* handles returned by successful libvmi_frame_create, in order
    capEpoch,     \* "open": no create yet; "fixed": cap unchanged since the
                  \* first create; "changed": cap set after the first create
    parse,        \* a run of _parseConfiguration: [tokens, pos, st], the tokens
                  \* of the configuration, the index of the next token and the
                  \* state of the loop
    sending,      \* the thread inside libvMI_send: [pc, mod, out, frame];
                  \* pc is "idle", or "checked" between the test of
                  \* libvMI_frame_get and the call of CvMIOutput::send
    threads       \* threads calling the pool: [owner, local, expect]; owner is
                  \* the thread holding g_vMIFramesMutex (0: none), local[t]
                  \* what thread t has read inside its call, expect[h] the
                  \* references handed out on handle h and not given back

vars == <<frames, nextHandle, maxFrames, modules, call, pre, issued, capEpoch,
          parse, sending, threads>>

----------------------------------------------------------------------------
(* Bounds of the model *)

\* libvmi_frame_create is explored while the handle counter is below this
MaxHandle == 3
\* calls are explored while every reference counter stays in MinRef..MaxRef
MaxRef == 2
\* largest non-negative cap given to libvMI_set_parameter
MaxCap == 2

\* counters below zero are explored down to this
MinRef == 1 - MaxRef

----------------------------------------------------------------------------
(* Program constants *)

\* #define MAX_FRAME_IN_LIST 10
MAX_FRAME_IN_LIST == 10

\* LIBVMI_INVALID_HANDLE (libvMI.h): "a reserved negative integer"
LIBVMI_INVALID_HANDLE == -1

\* reference counter of a CvMIFrame just constructed: the slot made by
\* libvmi_frame_create is in use without any addRef() call
CvMIFrame_new == 1

\* CvMIFrame::addRef(): counter + 1, returns the new counter
addRef(r) == r + 1

\* CvMIFrame::releaseRef(): counter - 1, returns the new counter (which the
\* caller tests for < 0)
releaseRef(r) == r - 1

----------------------------------------------------------------------------
(* Pool helpers *)

Min(S) == CHOOSE x \in S : \A y \in S : x <= y
Max(S) == CHOOSE x \in S : \A y \in S : x >= y

\* a scan that keeps the last free slot it meets instead of stopping at the
\* first: index of the last free slot, 0 if none
LastFreeItem(fr) ==
    LET S == {i \in 1..Len(fr) : fr[i].free}
    IN  IF S = {} THEN 0 ELSE Max(S)

\* the loop of libvmi_frame_create: index of the first slot whose free flag
\* is set, 0 if the loop ends without finding one
FirstFreeItem(fr) ==
    LET S == {i \in 1..Len(fr) : fr[i].free}
    IN  IF S = {} THEN 0 ELSE Min(S)

\* the loop of release / addref / get: index of the first slot whose handle
\* field equals h (whatever its free flag), 0 if none
FindItem(fr, h) ==
    LET S == {i \in 1..Len(fr) : fr[i].handle = h}
    IN  IF S = {} THEN 0 ELSE Min(S)

\* g_vMIFramesArray.size() >= g_vMIMaxFramesInList: size_t against int, so the
\* int is converted to unsigned; a negative cap becomes a value above any
\* vector size and the comparison is false
SizeReachesCap(n, cap) == IF cap < 0 THEN FALSE ELSE n >= cap

----------------------------------------------------------------------------
(* Frame pool operations, as functions of the pool state *)

Slot(h, r, f) == [handle |-> h, ref |-> r, free |-> f]

\* libvmi_frame_create() with the reuse branch reading the counter without
\* advancing it (g_vMIFramesNextHandle instead of g_vMIFramesNextHandle++)
libvmi_frame_create_noincr(fr, nh, cap) ==
    LET i == FirstFreeItem(fr)
    IN  IF i # 0
        THEN [frames |-> [fr EXCEPT ![i] = Slot(nh, addRef(fr[i].ref), FALSE)],
              next   |-> nh,
              ret    |-> nh]
        ELSE IF SizeReachesCap(Len(fr), cap)
        THEN [frames |-> fr, next |-> nh, ret |-> LIBVMI_INVALID_HANDLE]
        ELSE [frames |-> Append(fr, Slot(nh, CvMIFrame_new, FALSE)),
              next   |-> nh + 1,
              ret    |-> nh]

\* libvmi_frame_create() that tests the cap before it looks for a free slot
libvmi_frame_create_capfirst(fr, nh, cap) ==
    LET i == FirstFreeItem(fr)
    IN  IF SizeReachesCap(Len(fr), cap)
        THEN [frames |-> fr, next |-> nh, ret |-> LIBVMI_INVALID_HANDLE]
        ELSE IF i # 0
        THEN [frames |-> [fr EXCEPT ![i] = Slot(nh, addRef(fr[i].ref), FALSE)],
              next   |-> nh + 1,
              ret    |-> nh]
        ELSE [frames |-> Append(fr, Slot(nh, CvMIFrame_new, FALSE)),
              next   |-> nh + 1,
              ret    |-> nh]

\* libvmi_frame_create(): fr = g_vMIFramesArray, nh = g_vMIFramesNextHandle,
\* cap = g_vMIMaxFramesInList.  Result: the new array, the new counter and
\* the returned handle.
libvmi_frame_create(fr, nh, cap) ==
    LET i == FirstFreeItem(fr)
    IN  IF i # 0
        THEN [frames |-> [fr EXCEPT ![i] = Slot(nh, addRef(fr[i].ref), FALSE)],
              next   |-> nh + 1,
              ret    |-> nh]
        ELSE IF SizeReachesCap(Len(fr), cap)
        THEN [frames |-> fr, next |-> nh, ret |-> LIBVMI_INVALID_HANDLE]
        ELSE [frames |-> Append(fr, Slot(nh, CvMIFrame_new, FALSE)),
              next   |-> nh + 1,
              ret    |-> nh]

\* libvmi_frame_release() erasing the slot from the array when the counter
\* reaches 0 instead of flagging it free
libvmi_frame_release_erase(fr, h) ==
    LET i == FindItem(fr, h)
    IN  IF i = 0
        THEN [frames |-> fr, ret |-> -1]
        ELSE LET r == releaseRef(fr[i].ref)
             IN  [frames |-> IF r = 0
                             THEN SubSeq(fr, 1, i - 1) \o SubSeq(fr, i + 1, Len(fr))
                             ELSE [fr EXCEPT ![i].ref = r],
                  ret    |-> r]

\* libvmi_frame_release() testing ret <= 1 instead of ret == 0 before it
\* flags the slot free
libvmi_frame_release_early(fr, h) ==
    LET i == FindItem(fr, h)
    IN  IF i = 0
        THEN [frames |-> fr, ret |-> -1]
        ELSE LET r == releaseRef(fr[i].ref)
             IN  [frames |-> IF r = 0 \/ r = 1
                             THEN [fr EXCEPT ![i] = Slot(LIBVMI_INVALID_HANDLE, r, TRUE)]
                             ELSE [fr EXCEPT ![i].ref = r],
                  ret    |-> r]

\* libvmi_frame_release() that leaves the handle in the slot it frees
libvmi_frame_release_keep(fr, h) ==
    LET i == FindItem(fr, h)
    IN  IF i = 0
        THEN [frames |-> fr, ret |-> -1]
        ELSE LET r == releaseRef(fr[i].ref)
             IN  [frames |-> IF r = 0
                             THEN [fr EXCEPT ![i] = Slot(fr[i].handle, r, TRUE)]
                             ELSE [fr EXCEPT ![i].ref = r],
                  ret    |-> r]

\* libvmi_frame_release(hFrame): result is the new array and the return value
libvmi_frame_release(fr, h) ==
    LET i == FindItem(fr, h)
    IN  IF i = 0
        THEN [frames |-> fr, ret |-> -1]
        ELSE LET r == releaseRef(fr[i].ref)
             IN  [frames |-> IF r = 0
                             THEN [fr EXCEPT ![i] = Slot(LIBVMI_INVALID_HANDLE, r, TRUE)]
                             ELSE [fr EXCEPT ![i].ref = r],
                  ret    |-> r]

\* libvmi_frame_addref(hFrame): result is the new array and the return value
libvmi_frame_addref(fr, h) ==
    LET i == FindItem(fr, h)
    IN  IF i = 0
        THEN [frames |-> fr, ret |-> -1]
        ELSE LET r == addRef(fr[i].ref)
             IN  [frames |-> [fr EXCEPT ![i].ref = r], ret |-> r]

\* libvMI_frame_get(hFrame): index of the slot whose frame pointer is
\* returned, 0 for NULL
libvMI_frame_get(fr, h) == FindItem(fr, h)

\* libvMI_get_parameter(CUR_FRAMES_IN_LIST)
CUR_FRAMES_IN_LIST == Len(frames)

----------------------------------------------------------------------------
(* Inputs explored *)

\* handle arguments: the sentinel, every value the counter can issue, and
\* MaxHandle, which is never issued
HandleArgs == LIBVMI_INVALID_HANDLE..MaxHandle

\* values given to libvMI_set_parameter(MAX_FRAMES_IN_LIST, .)
CapArgs == {-1, 0, MaxCap}

InBounds(fr) == \A i \in 1..Len(fr) : fr[i].ref \in MinRef..MaxRef

Snapshot == [frames |-> frames, next |-> nextHandle, modules |-> modules]

Call(op, arg, ret, after) ==
    [op |-> op, arg |-> arg, ret |-> ret, after |-> after, mod |-> 0, pin |-> 0]

\* how a call on handle h follows the call before it
After(h) ==
    IF call.op = "addref" /\ call.arg = h THEN "addref_same"
    ELSE IF call.op = "create" /\ call.ret = h /\ h # LIBVMI_INVALID_HANDLE
    THEN "create_same"
    ELSE "other"

----------------------------------------------------------------------------
(* Actions of the frame pool *)

\* no configuration is being parsed
NoParse == [tokens |-> <<>>, pos |-> 1, st |-> <<>>]

\* no thread is inside libvMI_send
NoSend == [pc |-> "idle", mod |-> 0, out |-> 0, frame |-> 0]

\* threads that call the pool side by side
NumThreads == 2
Threads == 1..NumThreads
\* libvmi_frame_create is explored by the threads while the counter is below
\* this
MaxThreadHandle == 2

\* a thread outside the pool functions
Idle == [pc |-> "idle", op |-> "none", arg |-> 0, frames |-> <<>>, next |-> 0,
         cap |-> 0]

NoThreads ==
    [owner |-> 0, local |-> [t \in Threads |-> Idle],
     expect |-> [h \in 0..(MaxThreadHandle - 1) |-> 0]]

Init ==
    /\ parse = NoParse
    /\ sending = NoSend
    /\ threads = NoThreads
    /\ frames = <<>>
    /\ nextHandle = 0
    /\ maxFrames = MAX_FRAME_IN_LIST
    /\ modules = <<>>
    /\ call = Call("none", 0, 0, "other")
    /\ pre = [frames |-> <<>>, next |-> 0, modules |-> <<>>]
    /\ issued = <<>>
    /\ capEpoch = "open"

Create ==
    LET res == libvmi_frame_create(frames, nextHandle, maxFrames)
    IN  /\ res.next <= MaxHandle
        /\ InBounds(res.frames)
        /\ frames' = res.frames
        /\ nextHandle' = res.next
        /\ call' = Call("create", 0, res.ret, "other")
        /\ pre' = Snapshot
        /\ issued' = IF res.ret # LIBVMI_INVALID_HANDLE
                     THEN Append(issued, res.ret) ELSE issued
        /\ capEpoch' = IF capEpoch = "open" THEN "fixed" ELSE capEpoch
        /\ UNCHANGED <<maxFrames, modules, parse, sending, threads>>

Release(h) ==
    LET res == libvmi_frame_release(frames, h)
    IN  /\ InBounds(res.frames)
        /\ frames' = res.frames
        /\ call' = Call("release", h, res.ret, After(h))
        /\ pre' = Snapshot
        /\ UNCHANGED <<nextHandle, maxFrames, modules, issued, capEpoch, parse, sending, threads>>

Addref(h) ==
    LET res == libvmi_frame_addref(frames, h)
    IN  /\ InBounds(res.frames)
        /\ frames' = res.frames
        /\ call' = Call("addref", h, res.ret, "other")
        /\ pre' = Snapshot
        /\ UNCHANGED <<nextHandle, maxFrames, modules, issued, capEpoch, parse, sending, threads>>

\* libvMI_set_parameter(MAX_FRAMES_IN_LIST, &m)
SetMaxFrames(m) ==
    /\ maxFrames' = m
    /\ call' = Call("set_max", m, 0, "other")
    /\ pre' = Snapshot
    /\ capEpoch' = IF capEpoch = "open" THEN "open" ELSE "changed"
    /\ UNCHANGED <<frames, nextHandle, modules, issued, parse, sending, threads>>

Next ==
    \/ Create
    \/ \E h \in HandleArgs : Release(h)
    \/ \E h \in HandleArgs : Addref(h)
    \/ \E m \in CapArgs : SetMaxFrames(m)

Spec == Init /\ [][Next]_vars

----------------------------------------------------------------------------
(* Configuration parser.  A configuration is given as the sequence of its  *)
(* comma-separated tokens (the result of tools::split(config, ',')); a     *)
(* token is its text together with its '='-separated parts (the result of  *)
(* tools::split(token, '=')).  A bucket is the string the parser builds,   *)
(* kept as the sequence of the pieces appended to it.                      *)

Token(text, params) == [text |-> text, params |-> params]

TokIn  == Token("in_type=udp", <<"in_type", "udp">>)
TokOut == Token("out_type=tcp", <<"out_type", "tcp">>)
TokPar == Token("x=1", <<"x", "1">>)

\* the loop body with a bucket built by joining: the ',' goes between two
\* tokens instead of after each
_parseToken_join(st, t) ==
    IF t.text = "" THEN st
    ELSE IF Len(t.params) # 2 THEN st
    ELSE
        LET s1 == IF t.params[1] = "out_type"
                  THEN [st EXCEPT !.outputs = Append(@, <<>>),
                                  !.cur = <<"out", Len(st.outputs) + 1>>]
                  ELSE st
            s2 == IF t.params[1] = "in_type"
                  THEN [s1 EXCEPT !.inputs = Append(@, <<>>),
                                  !.cur = <<"in", Len(s1.inputs) + 1>>]
                  ELSE s1
            join(b) == IF b = <<>> THEN <<t.text>> ELSE b \o <<",", t.text>>
        IN  IF s2.cur[1] = "module"
            THEN [s2 EXCEPT !.module = join(@)]
            ELSE IF s2.cur[1] = "in"
            THEN [s2 EXCEPT !.inputs[s2.cur[2]] = join(@)]
            ELSE [s2 EXCEPT !.outputs[s2.cur[2]] = join(@)]

\* the loop body with each token put at the front of the active bucket
_parseToken_front(st, t) ==
    IF t.text = "" THEN st
    ELSE IF Len(t.params) # 2 THEN st
    ELSE
        LET s1 == IF t.params[1] = "out_type"
                  THEN [st EXCEPT !.outputs = Append(@, <<>>),
                                  !.cur = <<"out", Len(st.outputs) + 1>>]
                  ELSE st
            s2 == IF t.params[1] = "in_type"
                  THEN [s1 EXCEPT !.inputs = Append(@, <<>>),
                                  !.cur = <<"in", Len(s1.inputs) + 1>>]
                  ELSE s1
            piece == <<t.text, ",">>
        IN  IF s2.cur[1] = "module"
            THEN [s2 EXCEPT !.module = piece \o @]
            ELSE IF s2.cur[1] = "in"
            THEN [s2 EXCEPT !.inputs[s2.cur[2]] = piece \o @]
            ELSE [s2 EXCEPT !.outputs[s2.cur[2]] = piece \o @]

\* the loop body with a delimiter token left in the bucket that was active
\* before it: the new bucket starts empty
_parseToken_sticky(st, t) ==
    IF t.text = "" THEN st
    ELSE IF Len(t.params) # 2 THEN st
    ELSE
        LET piece == <<t.text, ",">>
            s0 == IF st.cur[1] = "module"
                  THEN [st EXCEPT !.module = @ \o piece]
                  ELSE IF st.cur[1] = "in"
                  THEN [st EXCEPT !.inputs[st.cur[2]] = @ \o piece]
                  ELSE [st EXCEPT !.outputs[st.cur[2]] = @ \o piece]
            s1 == IF t.params[1] = "out_type"
                  THEN [s0 EXCEPT !.outputs = Append(@, <<>>),
                                  !.cur = <<"out", Len(s0.outputs) + 1>>]
                  ELSE s0
        IN  IF t.params[1] = "in_type"
            THEN [s1 EXCEPT !.inputs = Append(@, <<>>),
                            !.cur = <<"in", Len(s1.inputs) + 1>>]
            ELSE s1

\* the loop body that looks at the key of a token before counting its parts:
\* a token with more or fewer than two parts still opens a bucket
_parseToken_keyfirst(st, t) ==
    IF t.text = "" THEN st
    ELSE
        LET s1 == IF Len(t.params) >= 1 /\ t.params[1] = "out_type"
                  THEN [st EXCEPT !.outputs = Append(@, <<>>),
                                  !.cur = <<"out", Len(st.outputs) + 1>>]
                  ELSE st
            s2 == IF Len(t.params) >= 1 /\ t.params[1] = "in_type"
                  THEN [s1 EXCEPT !.inputs = Append(@, <<>>),
                                  !.cur = <<"in", Len(s1.inputs) + 1>>]
                  ELSE s1
            piece == <<t.text, ",">>
        IN  IF Len(t.params) # 2 THEN s2
            ELSE IF s2.cur[1] = "module"
            THEN [s2 EXCEPT !.module = @ \o piece]
            ELSE IF s2.cur[1] = "in"
            THEN [s2 EXCEPT !.inputs[s2.cur[2]] = @ \o piece]
            ELSE [s2 EXCEPT !.outputs[s2.cur[2]] = @ \o piece]

\* one turn of the loop of _parseConfiguration on token t; st is
\* [module, inputs, outputs, cur], cur standing for the pointer currentPin:
\* <<"module">>, <<"in", i>> or <<"out", i>>
_parseToken(st, t) ==
    IF t.text = "" THEN st
    ELSE IF Len(t.params) # 2 THEN st
    ELSE
        LET s1 == IF t.params[1] = "out_type"
                  THEN [st EXCEPT !.outputs = Append(@, <<>>),
                                  !.cur = <<"out", Len(st.outputs) + 1>>]
                  ELSE st
            s2 == IF t.params[1] = "in_type"
                  THEN [s1 EXCEPT !.inputs = Append(@, <<>>),
                                  !.cur = <<"in", Len(s1.inputs) + 1>>]
                  ELSE s1
            piece == <<t.text, ",">>
        IN  IF s2.cur[1] = "module"
            THEN [s2 EXCEPT !.module = @ \o piece]
            ELSE IF s2.cur[1] = "in"
            THEN [s2 EXCEPT !.inputs[s2.cur[2]] = @ \o piece]
            ELSE [s2 EXCEPT !.outputs[s2.cur[2]] = @ \o piece]

RECURSIVE _parseFrom(_, _, _)
_parseFrom(st, tokens, i) ==
    IF i > Len(tokens) THEN st
    ELSE _parseFrom(_parseToken(st, tokens[i]), tokens, i + 1)

\* _parseConfiguration(config): the ParseConfiguration it returns
_parseConfiguration(tokens) ==
    LET st == _parseFrom([module |-> <<>>, inputs |-> <<>>, outputs |-> <<>>,
                          cur |-> <<"module">>], tokens, 1)
    IN  [moduleConfiguration  |-> st.module,
         inputConfigurations  |-> st.inputs,
         outputConfigurations |-> st.outputs]

----------------------------------------------------------------------------
(* Module registry.  An entry of g_Ip2VfModules is the record             *)
(* [moduleConfig, outputConfig, inputs, outputs, nextPin]: the two strings *)
(* of the Ip2vfModulesEntry and, of its CvMIModuleController, the input    *)
(* pins, the output pins (each with the queue of frame handles waiting for *)
(* its send task) and the counter behind getNextHandle().                  *)

\* first pin handle handed out by CvMIModuleController::getNextHandle()
FirstPinHandle == 0

RECURSIVE PinHandles(_, _)
\* n pins registered one after the other, handles from..(from + n - 1)
PinHandles(from, n) ==
    IF n = 0 THEN <<>> ELSE <<from>> \o PinHandles(from + 1, n - 1)

\* libvMI_create_module_ext(port, func, preconfig, user_data): the entry it
\* appends to g_Ip2VfModules; inputs are created first, then outputs
libvMI_create_module_ext(tokens) ==
    LET config == _parseConfiguration(tokens)
        nIn    == Len(config.inputConfigurations)
        nOut   == Len(config.outputConfigurations)
        hIn    == PinHandles(FirstPinHandle, nIn)
        hOut   == PinHandles(FirstPinHandle + nIn, nOut)
    IN  [moduleConfig |-> config.moduleConfiguration,
         outputConfig |-> <<>>,
         inputs  |-> [i \in 1..nIn |->
                        [handle |-> hIn[i], config |-> config.inputConfigurations[i]]],
         outputs |-> [i \in 1..nOut |->
                        [handle |-> hOut[i], config |-> config.outputConfigurations[i],
                         queue |-> <<>>]],
         nextPin |-> FirstPinHandle + nIn + nOut]

\* libvMI_get_output() that falls back on the first output pin when no pin
\* has the handle
libvMI_get_output_first(outputs, hOutput) ==
    LET S == {i \in 1..Len(outputs) : outputs[i].handle = hOutput}
    IN  IF S # {} THEN Min(S) ELSE IF Len(outputs) > 0 THEN 1 ELSE 0

\* libvMI_get_output(hModule, hOutput): index of the first output pin of the
\* module whose handle is hOutput, 0 for NULL
libvMI_get_output(outputs, hOutput) ==
    LET S == {i \in 1..Len(outputs) : outputs[i].handle = hOutput}
    IN  IF S = {} THEN 0 ELSE Min(S)

\* CvMIOutput::send(hFrame): take a reference on the frame and put the handle
\* at the end of the pin's queue
CvMIOutput_send(out, fr, hFrame) ==
    [out    |-> [out EXCEPT !.queue = Append(@, hFrame)],
     frames |-> libvmi_frame_addref(fr, hFrame).frames]

\* libvMI_send() that looks the frame up before the output pin
libvMI_send_framefirst(mods, fr, hModule, hOutput, hFrame) ==
    LET o == libvMI_get_output(mods[hModule].outputs, hOutput)
    IN  IF libvMI_frame_get(fr, hFrame) = 0
        THEN [modules |-> mods, frames |-> fr, ret |-> -1]
        ELSE IF o = 0
        THEN [modules |-> mods, frames |-> fr, ret |-> 0]
        ELSE LET res == CvMIOutput_send(mods[hModule].outputs[o], fr, hFrame)
             IN  [modules |-> [mods EXCEPT ![hModule].outputs[o] = res.out],
                  frames  |-> res.frames,
                  ret     |-> 0]

\* libvMI_send() that puts the handle in the queue without taking a reference
libvMI_send_noref(mods, fr, hModule, hOutput, hFrame) ==
    LET o == libvMI_get_output(mods[hModule].outputs, hOutput)
    IN  IF o = 0
        THEN [modules |-> mods, frames |-> fr, ret |-> 0]
        ELSE IF libvMI_frame_get(fr, hFrame) # 0
        THEN [modules |-> [mods EXCEPT ![hModule].outputs[o].queue = Append(@, hFrame)],
              frames  |-> fr,
              ret     |-> 0]
        ELSE [modules |-> mods, frames |-> fr, ret |-> -1]

\* libvMI_send(hModule, hOutput, hFrame) run by one thread: the new registry,
\* the new pool and the return value.  hModule is an index of the registry
\* (module handle + 1).
libvMI_send(mods, fr, hModule, hOutput, hFrame) ==
    LET o == libvMI_get_output(mods[hModule].outputs, hOutput)
    IN  IF o = 0
        THEN [modules |-> mods, frames |-> fr, ret |-> 0]
        ELSE IF libvMI_frame_get(fr, hFrame) # 0
        THEN LET res == CvMIOutput_send(mods[hModule].outputs[o], fr, hFrame)
             IN  [modules |-> [mods EXCEPT ![hModule].outputs[o] = res.out],
                  frames  |-> res.frames,
                  ret     |-> 0]
        ELSE [modules |-> mods, frames |-> fr, ret |-> -1]

\* the send task of an output pin takes the handle at the head of the queue,
\* transmits the frame and releases the reference taken by send
CvMIOutput_sendTask(out, fr) ==
    [out    |-> [out EXCEPT !.queue = Tail(@)],
     frames |-> libvmi_frame_release(fr, Head(out.queue)).frames]

----------------------------------------------------------------------------
(* Modules and send: bounds, inputs, actions *)

\* handles waiting in one output queue
MaxQueue == 1
\* libvmi_frame_create is explored in SpecSend while the counter is below this
MaxSendHandle == 1

\* configurations given to libvMI_create_module_ext: no pin; one input;
\* one output; one input and two outputs
ConfigArgs ==
    { <<TokPar>>,
      <<TokPar, TokIn, TokPar>>,
      <<TokOut, TokPar>>,
      <<TokIn, TokOut, TokPar, TokOut>> }

\* pins of the largest configuration
MaxPins ==
    Max({Len(libvMI_create_module_ext(c).inputs)
             + Len(libvMI_create_module_ext(c).outputs) : c \in ConfigArgs})

\* pin handle arguments: the sentinel, and every handle a module can hold
\* plus one that none holds
PinArgs == LIBVMI_INVALID_HANDLE..(FirstPinHandle + MaxPins)

SendHandleArgs == LIBVMI_INVALID_HANDLE..MaxSendHandle

SendCall(op, m, pin, arg, ret) ==
    [op |-> op, arg |-> arg, ret |-> ret, after |-> "other", mod |-> m, pin |-> pin]

\* SpecSend follows a process that creates one module
CreateModule(tokens) ==
    /\ modules = <<>>
    /\ modules' = Append(modules, libvMI_create_module_ext(tokens))
    /\ call' = SendCall("create_module", Len(modules) + 1, 0, 0, Len(modules))
    /\ pre' = Snapshot
    /\ UNCHANGED <<frames, nextHandle, maxFrames, issued, capEpoch, parse, sending, threads>>

Send(m, hOutput, hFrame) ==
    LET res == libvMI_send(modules, frames, m, hOutput, hFrame)
    IN  /\ m \in 1..Len(modules)
        /\ InBounds(res.frames)
        /\ \A o \in 1..Len(res.modules[m].outputs) :
               Len(res.modules[m].outputs[o].queue) <= MaxQueue
        /\ modules' = res.modules
        /\ frames' = res.frames
        /\ call' = SendCall("send", m, hOutput, hFrame, res.ret)
        /\ pre' = Snapshot
        /\ UNCHANGED <<nextHandle, maxFrames, issued, capEpoch, parse, sending, threads>>

SendTask(m, o) ==
    /\ m \in 1..Len(modules)
    /\ o \in 1..Len(modules[m].outputs)
    /\ modules[m].outputs[o].queue # <<>>
    /\ LET res == CvMIOutput_sendTask(modules[m].outputs[o], frames)
       IN  /\ InBounds(res.frames)
           /\ modules' = [modules EXCEPT ![m].outputs[o] = res.out]
           /\ frames' = res.frames
           /\ call' = SendCall("send_task", m, modules[m].outputs[o].handle,
                               Head(modules[m].outputs[o].queue), 0)
           /\ pre' = Snapshot
    /\ UNCHANGED <<nextHandle, maxFrames, issued, capEpoch, parse, sending, threads>>

SendCreate == nextHandle < MaxSendHandle /\ Create

\* In SpecSend the application creates frames, sends them and drops its own
\* references; the references added are those of libvMI_send.

NextSend ==
    \/ \E tokens \in ConfigArgs : CreateModule(tokens)
    \/ \E m \in 1..Len(modules), p \in PinArgs, h \in SendHandleArgs : Send(m, p, h)
    \/ \E m \in 1..Len(modules), o \in 1..MaxPins : SendTask(m, o)
    \/ SendCreate
    \/ \E h \in SendHandleArgs : Release(h)

SpecSend == Init /\ [][NextSend]_vars

----------------------------------------------------------------------------
(* Vocabulary of the properties.  These are written from the slot table    *)
(* alone, without the search helpers of the operations.                    *)

InUse(fr) == {i \in 1..Len(fr) : ~fr[i].free}

\* h is the handle of a slot that is in use
IsLive(fr, h) == \E i \in InUse(fr) : fr[i].handle = h

\* the in-use slot carrying h (h live)
SlotOf(fr, h) == CHOOSE i \in InUse(fr) : fr[i].handle = h

\* i is the free slot of lowest index
LowestFree(fr, i) ==
    /\ i \in 1..Len(fr)
    /\ fr[i].free
    /\ \A j \in 1..(i - 1) : ~fr[j].free

NoFree(fr) == \A i \in 1..Len(fr) : ~fr[i].free

SameFreePattern(a, b) ==
    /\ Len(a) = Len(b)
    /\ \A i \in 1..Len(a) : a[i].free = b[i].free

CreateOk == call.op = "create" /\ call.ret # LIBVMI_INVALID_HANDLE

----------------------------------------------------------------------------
(* C1 *)

\* C1: with the cap set to N >= 1 before the first create and not changed
\* since, after any calls of create / addref / release with arbitrary handle
\* arguments, at most N slots are in use and every in-use slot has a
\* reference counter >= 1.
C1_InUseBoundedAndReferenced ==
    (capEpoch \in {"open", "fixed"} /\ maxFrames >= 1) =>
        /\ Cardinality(InUse(frames)) <= maxFrames
        /\ \A i \in InUse(frames) : frames[i].ref >= 1

----------------------------------------------------------------------------
(* C2 *)

\* C2: in every reachable pool state every slot satisfies: counter = 0
\* implies free; free implies handle = invalid; not free implies counter >= 1
\* and handle # invalid.
C2_SlotInvariant ==
    \A i \in 1..Len(frames) :
        /\ frames[i].ref = 0 => frames[i].free
        /\ frames[i].free => frames[i].handle = LIBVMI_INVALID_HANDLE
        /\ ~frames[i].free =>
               frames[i].ref >= 1 /\ frames[i].handle # LIBVMI_INVALID_HANDLE

----------------------------------------------------------------------------
(* C3 *)

\* C3: libvmi_frame_release with a handle that is not the handle of an in-use
\* frame (never issued, already released to 0, or the sentinel) returns -1
\* and leaves every slot unchanged.
C3_ReleaseUnknownIsNoOp ==
    (call.op = "release" /\ ~IsLive(pre.frames, call.arg)) =>
        (call.ret = -1 /\ frames = pre.frames)

----------------------------------------------------------------------------
(* C4 *)

\* C4 as stated: a successful create immediately followed by the release of
\* the returned handle leaves the slot count and the free-flag pattern as
\* they were before the create.  (In the step of the release, pre is still
\* the pool before the create and frames' the pool after the release.)
C4_CreateReleaseRestores ==
    [][(call'.op = "release" /\ call'.after = "create_same") =>
           SameFreePattern(pre.frames, frames')]_vars

\* C4 amended: create then release of the returned handle changes no slot
\* but the acquired one and removes none.  A reused free slot keeps the slot
\* count; a newly allocated slot is appended, stays in the table and ends
\* free.  The acquired slot ends free exactly when the release returned 0,
\* that is when its counter was 0 before the create (always so for a new
\* slot).
C4_CreateReleaseRetainsSlot ==
    [][(call'.op = "release" /\ call'.after = "create_same") =>
        LET before == pre.frames
            after  == frames'
            k      == IF NoFree(before) THEN Len(before) + 1
                      ELSE CHOOSE i \in 1..Len(before) : LowestFree(before, i)
        IN  /\ Len(after) = IF NoFree(before) THEN Len(before) + 1 ELSE Len(before)
            /\ \A i \in 1..Len(before) : i # k => after[i] = before[i]
            /\ after[k].free <=> call'.ret = 0
            /\ NoFree(before) => after[k].free
            /\ ~NoFree(before) => (after[k].free <=> before[k].ref = 0)
            /\ after[k].free => SameFreePattern(SubSeq(after, 1, Len(before)), before)
       ]_vars

\* a create was followed by the release of its handle, once on a reused slot
\* and once on a new slot
C4_Witness ==
    /\ call.op = "release" /\ call.after = "create_same" /\ call.ret = 0
    /\ Len(frames) >= 2
    /\ \E i \in 1..(Len(frames) - 1) : frames[i].free /\ ~pre.frames[i].free

----------------------------------------------------------------------------
(* C5 *)

\* C5: for a live handle h with counter r >= 1, addref(h) returns r+1 and the
\* release(h) that follows returns r; afterwards the slot is in use, carries
\* h, has counter r and no other slot has changed.  (In the step of the
\* release, pre is the pool before the addref, call the addref.)
C5_AddrefReleaseNeutral ==
    [][(call'.op = "release" /\ call'.after = "addref_same"
            /\ IsLive(pre.frames, call.arg)
            /\ pre.frames[SlotOf(pre.frames, call.arg)].ref >= 1) =>
        LET h == call.arg
            k == SlotOf(pre.frames, h)
            r == pre.frames[k].ref
        IN  /\ call.ret = r + 1
            /\ call'.ret = r
            /\ frames' = pre.frames
            /\ ~frames'[k].free /\ frames'[k].handle = h /\ frames'[k].ref = r
       ]_vars

\* an addref of a live handle was followed by its release, with another slot
\* in the table
C5_Witness ==
    /\ call.op = "release" /\ call.after = "addref_same"
    /\ call.ret >= 1
    /\ IsLive(frames, call.arg)
    /\ Len(frames) >= 2

----------------------------------------------------------------------------
(* C6 *)

\* C6: every handle returned by a successful create is strictly greater than
\* every handle returned by an earlier successful create, for a new slot and
\* for a reused one; no two in-use slots carry the same handle.
C6_HandlesStrictlyIncrease ==
    /\ \A i, j \in 1..Len(issued) : i < j => issued[i] < issued[j]
    /\ \A i, j \in InUse(frames) : i # j => frames[i].handle # frames[j].handle

\* three handles were issued, the last one for a reused slot
C6_Witness ==
    /\ CreateOk
    /\ Len(issued) >= 3
    /\ Len(frames) = Len(pre.frames)
    /\ Cardinality(InUse(frames)) >= 2

----------------------------------------------------------------------------
(* C7 *)

\* C7: create returns the invalid handle exactly when no slot is free and the
\* slot count is >= the cap; then the slot table and the handle counter are
\* unchanged (so the next successful create returns the handle it would have
\* returned without the failed call).
C7_ExhaustedExactly ==
    call.op = "create" =>
        /\ call.ret = LIBVMI_INVALID_HANDLE <=>
               (NoFree(pre.frames) /\ Len(pre.frames) >= maxFrames)
        /\ call.ret = LIBVMI_INVALID_HANDLE =>
               (frames = pre.frames /\ nextHandle = pre.next)

----------------------------------------------------------------------------
(* C8 *)

\* C8: when a slot is free, create reuses the free slot of lowest index,
\* gives it a handle never issued before and leaves the slot count as it
\* was; no release decreases the slot count.
C8_FirstFitReuse ==
    /\ (call.op = "create" /\ ~NoFree(pre.frames)) =>
        \E k \in 1..Len(pre.frames) :
            /\ LowestFree(pre.frames, k)
            /\ CUR_FRAMES_IN_LIST = Len(pre.frames)
            /\ ~frames[k].free
            /\ frames[k].handle = call.ret
            /\ call.ret # LIBVMI_INVALID_HANDLE
            /\ \A n \in 1..(Len(issued) - 1) : issued[n] # call.ret
            /\ \A i \in 1..Len(frames) : i # k => frames[i] = pre.frames[i]
    /\ call.op = "release" => CUR_FRAMES_IN_LIST >= Len(pre.frames)

\* two slots were free and the create took the first, leaving the second
C8_Witness ==
    /\ CreateOk
    /\ \E k \in 1..Len(pre.frames) :
        /\ LowestFree(pre.frames, k)
        /\ \E j \in (k + 1)..Len(pre.frames) : pre.frames[j].free /\ frames[j].free
        /\ ~frames[k].free

----------------------------------------------------------------------------
(* C9 *)

\* C9: after any calls (stale or sentinel handles included) the slot of a
\* handle returned by a successful create has a reference counter of exactly
\* 1, for a new slot and for a reused one.
C9_CreatedWithOneRef ==
    CreateOk =>
        \A i \in 1..Len(frames) :
            frames[i].handle = call.ret => frames[i].ref = 1

----------------------------------------------------------------------------
(* C10 *)

\* C10: libvMI_send on a module none of whose output pins has the given
\* output handle returns 0 whatever the frame handle is (live, unknown or
\* invalid) and changes no frame's reference counter and no output queue.
C10_SendWithoutPinIsNoOp ==
    (call.op = "send"
        /\ \A o \in 1..Len(pre.modules[call.mod].outputs) :
               pre.modules[call.mod].outputs[o].handle # call.pin) =>
        /\ call.ret = 0
        /\ frames = pre.frames
        /\ modules = pre.modules

\* a send named no pin of a module that has output pins, with a frame handle
\* the pool does not know, while a frame is live and another pin has a queue
C10_Witness ==
    /\ call.op = "send"
    /\ Len(pre.modules[call.mod].outputs) >= 1
    /\ \A o \in 1..Len(pre.modules[call.mod].outputs) :
           pre.modules[call.mod].outputs[o].handle # call.pin
    /\ ~IsLive(pre.frames, call.arg)
    /\ call.ret = 0
    /\ InUse(frames) # {}

----------------------------------------------------------------------------
(* C11 *)

\* C11: libvMI_send on an output pin the module has, with a frame handle that
\* is not the handle of an in-use frame (never issued, released to 0, or the
\* sentinel), returns -1, puts nothing in the pin's queue and changes no
\* pool slot.
C11_SendUnknownFrameFails ==
    (call.op = "send"
        /\ \E o \in 1..Len(pre.modules[call.mod].outputs) :
               pre.modules[call.mod].outputs[o].handle = call.pin
        /\ ~IsLive(pre.frames, call.arg)) =>
        /\ call.ret = -1
        /\ modules = pre.modules
        /\ frames = pre.frames

----------------------------------------------------------------------------
(* Life of a sent frame.  SpecLife follows an application that sends and   *)
(* releases only frames it holds a reference on; each output pin's send    *)
(* task is a thread of its own that runs whenever its queue is not empty.  *)

\* places <<module, pin, position>> where h waits in an output queue: one
\* reference is held by the library for each
QueuedAt(mods, h) ==
    UNION { UNION { { <<m, o, k>> :
                        k \in {j \in 1..Len(mods[m].outputs[o].queue) :
                                  mods[m].outputs[o].queue[j] = h} } :
                    o \in 1..Len(mods[m].outputs) } :
            m \in 1..Len(mods) }

\* the application holds a reference on h: h is in use and its counter is
\* above the references held by the queues
Owns(h) ==
    /\ IsLive(frames, h)
    /\ frames[SlotOf(frames, h)].ref > Cardinality(QueuedAt(modules, h))

\* libvmi_frame_create is explored in SpecLife while the counter is below this
MaxLifeHandle == 2

LifeHandleArgs == LIBVMI_INVALID_HANDLE..MaxLifeHandle

LifeCreate == nextHandle < MaxLifeHandle /\ Create

\* handles of the output pins of module m
OutputHandles(m) ==
    {modules[m].outputs[o].handle : o \in 1..Len(modules[m].outputs)}

OwnedSend(m, hOutput, hFrame) == Owns(hFrame) /\ Send(m, hOutput, hFrame)

OwnedRelease(h) == Owns(h) /\ Release(h)

NextLife ==
    \/ \E tokens \in ConfigArgs : CreateModule(tokens)
    \/ LifeCreate
    \/ \E m \in 1..Len(modules), h \in LifeHandleArgs :
           \E p \in OutputHandles(m) : OwnedSend(m, p, h)
    \/ \E h \in LifeHandleArgs : OwnedRelease(h)
    \/ \E m \in 1..Len(modules), o \in 1..MaxPins : SendTask(m, o)

SpecLife ==
    /\ Init
    /\ [][NextLife]_vars
    /\ \A o \in 1..MaxPins : WF_vars(\E m \in 1..Len(modules) : SendTask(m, o))

----------------------------------------------------------------------------
(* C12 *)

\* the call was a send of a frame held with one reference, on a pin the
\* module has
C12_SentOnce ==
    /\ call.op = "send"
    /\ \E o \in 1..Len(pre.modules[call.mod].outputs) :
           pre.modules[call.mod].outputs[o].handle = call.pin
    /\ IsLive(pre.frames, call.arg)
    /\ pre.frames[SlotOf(pre.frames, call.arg)].ref = 1

\* the call was the application's release of a frame with two references, one
\* of them held by a queue
C12_CallerReleased ==
    /\ call.op = "release"
    /\ IsLive(pre.frames, call.arg)
    /\ pre.frames[SlotOf(pre.frames, call.arg)].ref = 2
    /\ Cardinality(QueuedAt(pre.modules, call.arg)) = 1

C12_Safety ==
    /\ C12_SentOnce =>
           /\ call.ret = 0
           /\ IsLive(frames, call.arg)
           /\ SlotOf(frames, call.arg) = SlotOf(pre.frames, call.arg)
           /\ frames[SlotOf(frames, call.arg)].ref = 2
           /\ Cardinality(QueuedAt(modules, call.arg)) = 1
    /\ C12_CallerReleased =>
           /\ call.ret = 1
           /\ IsLive(frames, call.arg)
           /\ SlotOf(frames, call.arg) = SlotOf(pre.frames, call.arg)
           /\ frames[SlotOf(frames, call.arg)].ref = 1
    /\ \A h \in LifeHandleArgs :
           QueuedAt(modules, h) # {} =>
               IsLive(frames, h) /\ frames[SlotOf(frames, h)].ref >= 1

\* slot i holds a frame that was sent and that its caller has released: the
\* only reference left is the queue's
C12_WaitsForTask(i) ==
    /\ C12_CallerReleased
    /\ call.ret = 1
    /\ i \in InUse(frames)
    /\ frames[i].handle = call.arg

\* C12: a frame h acquired with refcount 1 has refcount 2 after a successful
\* libvMI_send and refcount 1 after its caller's release, its slot still in
\* use with handle h; while h waits in an output queue its slot is in use;
\* once the send task has released its reference the slot is free, which
\* eventually happens, and the slot stays in the table (no step removes a
\* slot).
C12_SendLifecycle ==
    /\ []C12_Safety
    /\ [][Len(frames') >= Len(frames)]_vars
    /\ \A i \in 1..MaxLifeHandle :
           C12_WaitsForTask(i) ~> (i \in 1..Len(frames) /\ frames[i].free)

\* the send task has released the last reference of a frame that was sent:
\* the slot is free and still in the table
C12_Witness ==
    /\ call.op = "send_task"
    /\ IsLive(pre.frames, call.arg)
    /\ pre.frames[SlotOf(pre.frames, call.arg)].ref = 1
    /\ Len(frames) = Len(pre.frames)
    /\ frames[SlotOf(pre.frames, call.arg)].free

----------------------------------------------------------------------------
(* Registry of modules: create and close.  As in libvMI_send above, a      *)
(* module is named by its index in the registry, which is its module       *)
(* handle + 1.                                                             *)

\* modules open at the same time in SpecReg
MaxModules == 2

\* libvMI_close(hModule): close() and delete the entry, then
\* g_Ip2VfModules.erase(g_Ip2VfModules.begin() + hModule): the entries behind
\* it move down by one
libvMI_close(mods, hModule) ==
    [i \in 1..(Len(mods) - 1) |-> IF i < hModule THEN mods[i] ELSE mods[i + 1]]

\* _libvMI_create_module_int returns the size of the registry before the
\* push_back
\* in SpecReg an entry also remembers, as preconfig, the tokens of the
\* configuration string it was created from, and as created the handle its
\* create call returned
RegCreate(tokens) ==
    /\ Len(modules) < MaxModules
    /\ modules' = Append(modules,
                         libvMI_create_module_ext(tokens)
                             @@ [preconfig |-> tokens, created |-> Len(modules)])
    /\ call' = SendCall("create_module", Len(modules) + 1, 0, 0, Len(modules))
    /\ pre' = Snapshot
    /\ UNCHANGED <<frames, nextHandle, maxFrames, issued, capEpoch, parse, sending, threads>>

Close(m) ==
    /\ m \in 1..Len(modules)
    /\ modules' = libvMI_close(modules, m)
    /\ call' = SendCall("close", m, 0, 0, 0)
    /\ pre' = Snapshot
    /\ UNCHANGED <<frames, nextHandle, maxFrames, issued, capEpoch, parse, sending, threads>>

----------------------------------------------------------------------------
(* C13 *)

\* C13: libvMI_close of one module leaves the registry entry of every other
\* open module in place: the handle its create call returned still names the
\* same entry.
C13_CloseLeavesOthersInPlace ==
    call.op = "close" =>
        \A j \in 1..Len(pre.modules) :
            j # call.mod =>
                /\ j \in 1..Len(modules)
                /\ modules[j] = pre.modules[j]

----------------------------------------------------------------------------
(* The parser on its own.  SpecParse runs the loop of _parseConfiguration  *)
(* token by token on one configuration chosen at the start.                *)

\* tokens of one configuration
MaxTokens == 3

TokPar2   == Token("y=2", <<"y", "2">>)
\* the empty token, as between two commas
TokEmpty  == Token("", <<>>)
\* tokens that do not split on '=' into two parts
TokBare   == Token("in_type", <<"in_type">>)
TokTriple == Token("out_type=a=b", <<"out_type", "a", "b">>)

ParseTokens == {TokIn, TokOut, TokPar, TokPar2, TokEmpty, TokBare, TokTriple}

\* type=A,x=1,in_type=udp,p=5,out_type=tcp,q=6,out_type=tcp,r=7
ExampleConfig ==
    << Token("type=A", <<"type", "A">>), TokPar,
       TokIn, Token("p=5", <<"p", "5">>),
       TokOut, Token("q=6", <<"q", "6">>),
       TokOut, Token("r=7", <<"r", "7">>) >>

ParseArgs ==
    UNION {[1..n -> ParseTokens] : n \in 0..MaxTokens} \cup {ExampleConfig}

\* the state at the entry of the loop: currentPin at the module bucket
ParseStart(tokens) ==
    [tokens |-> tokens, pos |-> 1,
     st |-> [module |-> <<>>, inputs |-> <<>>, outputs |-> <<>>,
             cur |-> <<"module">>]]

InitParse ==
    /\ parse \in {ParseStart(tokens) : tokens \in ParseArgs}
    /\ sending = NoSend
    /\ threads = NoThreads
    /\ frames = <<>>
    /\ nextHandle = 0
    /\ maxFrames = MAX_FRAME_IN_LIST
    /\ modules = <<>>
    /\ call = Call("none", 0, 0, "other")
    /\ pre = [frames |-> <<>>, next |-> 0, modules |-> <<>>]
    /\ issued = <<>>
    /\ capEpoch = "open"

\* one turn of the loop
ParseStep ==
    /\ parse.pos <= Len(parse.tokens)
    /\ parse' = [parse EXCEPT !.pos = @ + 1,
                              !.st = _parseToken(@, parse.tokens[parse.pos])]
    /\ UNCHANGED <<frames, nextHandle, maxFrames, modules, call, pre, issued,
                   capEpoch, sending, threads>>

NextParse == ParseStep

SpecParse == InitParse /\ [][NextParse]_vars

\* the loop has ended: parse.st holds the ParseConfiguration returned
ParseDone == parse.tokens # <<>> /\ parse.pos > Len(parse.tokens)

\* vocabulary of the parser properties
Buckets(st) == <<st.module>> \o st.inputs \o st.outputs

\* the tokens of a bucket: what splitting it on ',' gives, empty parts left out
BucketTexts(b) == SelectSeq(b, LAMBDA x : x # ",")

\* texts joined by ',': a,b,c
Joined(texts) ==
    [k \in 1..(IF texts = <<>> THEN 0 ELSE 2 * Len(texts) - 1) |->
        IF k % 2 = 1 THEN texts[(k + 1) \div 2] ELSE ","]

\* each text followed by ',': a,b,c,
Terminated(texts) ==
    [k \in 1..(2 * Len(texts)) |->
        IF k % 2 = 1 THEN texts[(k + 1) \div 2] ELSE ","]

----------------------------------------------------------------------------
(* C14 *)

\* C14 as stated: every bucket is its tokens joined by ',' with no leading
\* or trailing separator; for ExampleConfig the module bucket is exactly
\* type=A,x=1, the input bucket in_type=udp,p=5 and the output buckets
\* out_type=tcp,q=6 and out_type=tcp,r=7.
C14_BucketsJoined ==
    ParseDone =>
        /\ \A i \in 1..Len(Buckets(parse.st)) :
               Buckets(parse.st)[i] = Joined(BucketTexts(Buckets(parse.st)[i]))
        /\ parse.tokens = ExampleConfig =>
               /\ parse.st.module = Joined(<<"type=A", "x=1">>)
               /\ parse.st.inputs = << Joined(<<"in_type=udp", "p=5">>) >>
               /\ parse.st.outputs = << Joined(<<"out_type=tcp", "q=6">>),
                                        Joined(<<"out_type=tcp", "r=7">>) >>

\* C14: the configuration parser emits each bucket as its tokens in original
\* order, each token followed by ',': no leading separator, one trailing
\* separator; for ExampleConfig the module bucket is exactly type=A,x=1, (with
\* the comma), the input bucket in_type=udp,p=5, and the output buckets
\* out_type=tcp,q=6, and out_type=tcp,r=7, in that order.
C14_BucketsTerminated ==
    ParseDone =>
        /\ \A i \in 1..Len(Buckets(parse.st)) :
               Buckets(parse.st)[i] = Terminated(BucketTexts(Buckets(parse.st)[i]))
        /\ parse.tokens = ExampleConfig =>
               /\ parse.st.module = Terminated(<<"type=A", "x=1">>)
               /\ parse.st.inputs = << Terminated(<<"in_type=udp", "p=5">>) >>
               /\ parse.st.outputs = << Terminated(<<"out_type=tcp", "q=6">>),
                                        Terminated(<<"out_type=tcp", "r=7">>) >>

\* ExampleConfig has been parsed into its four buckets
C14_Witness ==
    /\ ParseDone
    /\ parse.tokens = ExampleConfig
    /\ parse.st.module # <<>>
    /\ Len(parse.st.inputs) = 1
    /\ Len(parse.st.outputs) = 2

----------------------------------------------------------------------------
(* C15 *)

\* a token the loop does not skip: not empty, two parts around '='
WellFormed(t) == t.text # "" /\ Len(t.params) = 2

IsDelimiter(t, key) == WellFormed(t) /\ t.params[1] = key

\* texts of the tokens of a configuration that satisfy Keep
TextsOf(tokens, Keep(_)) ==
    LET kept == SelectSeq(tokens, Keep)
    IN  [k \in 1..Len(kept) |-> kept[k].text]

Count(seq, x) == Cardinality({k \in 1..Len(seq) : seq[k] = x})

\* the same elements the same number of times
SameMultiset(a, b) ==
    /\ Len(a) = Len(b)
    /\ \A k \in 1..Len(a) : Count(a, a[k]) = Count(b, a[k])

RECURSIVE IsSubsequence(_, _)
\* a is b with some elements left out
IsSubsequence(a, b) ==
    IF a = <<>> THEN TRUE
    ELSE IF b = <<>> THEN FALSE
    ELSE IF Head(a) = Head(b) THEN IsSubsequence(Tail(a), Tail(b))
    ELSE IsSubsequence(a, Tail(b))

RECURSIVE Flatten(_)
Flatten(ss) == IF ss = <<>> THEN <<>> ELSE Head(ss) \o Flatten(Tail(ss))

\* the tokens of all the buckets
AllBucketTexts(st) ==
    Flatten([i \in 1..Len(Buckets(st)) |-> BucketTexts(Buckets(st)[i])])

\* order inside the buckets and first token of the pin buckets, against the
\* tokens named by Keep
C15_OrderAndDelimiters(Keep(_)) ==
    /\ \A i \in 1..Len(Buckets(parse.st)) :
           IsSubsequence(BucketTexts(Buckets(parse.st)[i]),
                         TextsOf(parse.tokens, Keep))
    /\ \A i \in 1..Len(parse.st.inputs) :
           /\ parse.st.inputs[i] # <<>>
           /\ \E k \in 1..Len(parse.tokens) :
                  /\ IsDelimiter(parse.tokens[k], "in_type")
                  /\ parse.tokens[k].text = parse.st.inputs[i][1]
    /\ \A i \in 1..Len(parse.st.outputs) :
           /\ parse.st.outputs[i] # <<>>
           /\ \E k \in 1..Len(parse.tokens) :
                  /\ IsDelimiter(parse.tokens[k], "out_type")
                  /\ parse.tokens[k].text = parse.st.outputs[i][1]

\* C15 as stated: the tokens of the buckets are, as a multiset, the tokens of
\* the configuration (empty tokens left aside on both sides).
C15_RoundTripAllTokens ==
    ParseDone =>
        /\ SameMultiset(AllBucketTexts(parse.st),
                        TextsOf(parse.tokens, LAMBDA t : t.text # ""))
        /\ C15_OrderAndDelimiters(LAMBDA t : t.text # "")

\* C15: splitting the module bucket, the input buckets and the output buckets
\* on ',' gives, as a multiset, the well-formed tokens of the configuration
\* (those not empty that split on '=' into exactly two parts; the others are
\* in no bucket); within each bucket the tokens keep their original relative
\* order, and every pin bucket starts with its in_type= / out_type= token.
C15_RoundTripWellFormed ==
    ParseDone =>
        /\ SameMultiset(AllBucketTexts(parse.st),
                        TextsOf(parse.tokens, WellFormed))
        /\ C15_OrderAndDelimiters(WellFormed)

\* a configuration with a token that is skipped, a pin and a bucket of two
\* tokens has been parsed
C15_Witness ==
    /\ ParseDone
    /\ \E k \in 1..Len(parse.tokens) :
           parse.tokens[k].text # "" /\ ~WellFormed(parse.tokens[k])
    /\ \E i \in 1..Len(Buckets(parse.st)) :
           Len(BucketTexts(Buckets(parse.st)[i])) = 2
    /\ Len(parse.st.inputs) + Len(parse.st.outputs) >= 1

----------------------------------------------------------------------------
(* Frame creation with initial headers.  A vMIFrameInitStruct is the       *)
(* record [media_format, media_size, video_width, video_height,            *)
(* video_depth, video_smpfmt]; a CFrameHeaders is the record [mediafmt,    *)
(* mediasize, w, h, depth, smpfmt].  A sampling format is named by its     *)
(* enumerator; "NONE" stands for a value that is not above 0 and "OTHER"   *)
(* for a value above 0 that _calculate_pixel_size_in_bits does not know.   *)

\* int / int of C: the quotient is truncated towards zero
IntDiv(a, b) == IF a >= 0 THEN a \div b ELSE -((-a) \div b)

\* init._video_smpfmt > 0
SmpfmtSupplied(s) == s # "NONE"

\* a CFrameHeaders after construction
CFrameHeaders_new ==
    [mediafmt |-> "VIDEO", mediasize |-> 0, w |-> 0, h |-> 0, depth |-> 0,
     smpfmt |-> "NONE"]

\* CvMIFrame::create(headers): the reference counter it leaves
CvMIFrame_create(r) == CvMIFrame_new

\* _calculate_pixel_size_in_bits() that counts YCbCr 4:2:2 as three samples
\* per pixel
_calculate_pixel_size_in_bits_ycbcr3(fh) ==
    CASE fh.smpfmt \in {"BGRA", "RGBA"} -> 4 * fh.depth
      [] fh.smpfmt \in {"BGR", "RGB", "YCbCr_4_2_2"} -> 3 * fh.depth
      [] OTHER -> -1

_calculate_pixel_size_in_bits(fh) ==
    CASE fh.smpfmt \in {"BGRA", "RGBA"} -> 4 * fh.depth
      [] fh.smpfmt \in {"BGR", "RGB"} -> 3 * fh.depth
      [] fh.smpfmt = "YCbCr_4_2_2" -> 2 * fh.depth
      [] OTHER -> -1

\* the headers built from init at the start of libvmi_frame_create_ext, before
\* the media size is derived
InitHeaders(init) ==
    LET f1 == [CFrameHeaders_new EXCEPT !.mediafmt = init.media_format]
        f2 == IF init.media_size > 0
              THEN [f1 EXCEPT !.mediasize = init.media_size] ELSE f1
    IN  IF init.media_format # "VIDEO" THEN f2
        ELSE [f2 EXCEPT
                 !.w = IF init.video_width > 0 THEN init.video_width ELSE @,
                 !.h = IF init.video_height > 0 THEN init.video_height ELSE @,
                 !.depth = IF init.video_depth > 0 THEN init.video_depth ELSE @,
                 !.smpfmt = IF SmpfmtSupplied(init.video_smpfmt)
                            THEN init.video_smpfmt ELSE @]

\* init._video_width * init._video_height * _calculate_pixel_size_in_bits(fh) / 8
CalcMediaSize(init, fh) ==
    IntDiv(init.video_width * init.video_height
               * _calculate_pixel_size_in_bits(fh), 8)

\* the frame is acquired and filled: the pool after libvmi_frame_create and
\* frame->create(&fh)
AcquireAndFill(fr, nh, cap, init, fh) ==
    LET res == libvmi_frame_create(fr, nh, cap)
        i   == libvMI_frame_get(res.frames, res.ret)
    IN  [frames |-> IF res.ret # LIBVMI_INVALID_HANDLE
                    THEN [res.frames EXCEPT ![i].ref = CvMIFrame_create(@)]
                    ELSE res.frames,
         next   |-> res.next,
         ret    |-> res.ret,
         init   |-> init,
         fh     |-> fh]

Rejected(fr, nh, init, fh) ==
    [frames |-> fr, next |-> nh, ret |-> LIBVMI_INVALID_HANDLE,
     init |-> init, fh |-> fh]

\* libvmi_frame_create_ext() that takes the frame first and looks at init
\* afterwards
libvmi_frame_create_ext_late(fr, nh, cap, init) ==
    LET fh   == InitHeaders(init)
        res  == AcquireAndFill(fr, nh, cap, init, fh)
        calc == CalcMediaSize(init, fh)
    IN  IF init.media_format = "VIDEO"
        THEN IF init.media_size <= 0
             THEN AcquireAndFill(fr, nh, cap, [init EXCEPT !.media_size = calc],
                                 [fh EXCEPT !.mediasize = calc])
             ELSE IF /\ init.video_width > 0 /\ init.video_height > 0
                     /\ init.video_depth > 0
                     /\ SmpfmtSupplied(init.video_smpfmt)
                     /\ init.media_size # calc
             THEN [res EXCEPT !.ret = LIBVMI_INVALID_HANDLE]
             ELSE res
        ELSE IF init.media_format = "AUDIO" /\ init.media_size <= 0
        THEN [res EXCEPT !.ret = LIBVMI_INVALID_HANDLE]
        ELSE res

\* libvmi_frame_create_ext(init): the new pool and counter, the handle
\* returned, init as the call leaves it and the headers given to the frame
libvmi_frame_create_ext(fr, nh, cap, init) ==
    LET fh   == InitHeaders(init)
        calc == CalcMediaSize(init, fh)
    IN  IF init.media_format = "VIDEO"
        THEN IF init.media_size <= 0
             THEN AcquireAndFill(fr, nh, cap, [init EXCEPT !.media_size = calc],
                                 [fh EXCEPT !.mediasize = calc])
             ELSE IF /\ init.video_width > 0 /\ init.video_height > 0
                     /\ init.video_depth > 0
                     /\ SmpfmtSupplied(init.video_smpfmt)
                     /\ init.media_size # calc
             THEN Rejected(fr, nh, init, fh)
             ELSE AcquireAndFill(fr, nh, cap, init, fh)
        ELSE IF init.media_format = "AUDIO" /\ init.media_size <= 0
        THEN Rejected(fr, nh, init, fh)
        ELSE AcquireAndFill(fr, nh, cap, init, fh)

\* libvmi_frame_create_ext is explored in SpecExt while the counter is below
\* this
MaxExtHandle == 2

ExtHandleArgs == LIBVMI_INVALID_HANDLE..MaxExtHandle

SamplingArgs == {"NONE", "BGRA", "RGBA", "BGR", "RGB", "YCbCr_4_2_2", "OTHER"}

\* width, height and depth given in init: nothing; a small frame whose size is
\* not a whole number of bytes before the division; the same without depth;
\* 1920x1080 at 8 bits
GeometryArgs == { <<0, 0, 0>>, <<1, 3, 10>>, <<1, 3, 0>>, <<1920, 1080, 8>> }

VideoInit(g, s, size) ==
    [media_format |-> "VIDEO", media_size |-> size, video_width |-> g[1],
     video_height |-> g[2], video_depth |-> g[3], video_smpfmt |-> s]

\* media sizes given with a video init: none, one that no geometry gives, and
\* the one the call would compute
VideoSizeArgs(g, s) ==
    {0, 5, CalcMediaSize(VideoInit(g, s, 0), InitHeaders(VideoInit(g, s, 0)))}

OtherInit(fmt, size) ==
    [media_format |-> fmt, media_size |-> size, video_width |-> 0,
     video_height |-> 0, video_depth |-> 0, video_smpfmt |-> "NONE"]

InitArgs ==
    UNION { {VideoInit(gs[1], gs[2], size) : size \in VideoSizeArgs(gs[1], gs[2])} :
            gs \in GeometryArgs \X SamplingArgs }
    \cup {OtherInit(fmt, size) : fmt \in {"AUDIO", "DATA"}, size \in {-1, 0, 5}}

ExtCall(init, res) ==
    [op |-> "create_ext", arg |-> init, ret |-> res.ret, after |-> "other",
     mod |-> 0, pin |-> 0, init |-> res.init, fh |-> res.fh]

CreateExt(init) ==
    LET res == libvmi_frame_create_ext(frames, nextHandle, maxFrames, init)
    IN  /\ nextHandle < MaxExtHandle
        /\ InBounds(res.frames)
        /\ frames' = res.frames
        /\ nextHandle' = res.next
        /\ call' = ExtCall(init, res)
        /\ pre' = Snapshot
        /\ issued' = IF res.ret # LIBVMI_INVALID_HANDLE
                     THEN Append(issued, res.ret) ELSE issued
        /\ capEpoch' = IF capEpoch = "open" THEN "fixed" ELSE capEpoch
        /\ UNCHANGED <<maxFrames, modules, parse, sending, threads>>

NextExt ==
    \/ \E init \in InitArgs : CreateExt(init)
    \/ \E h \in ExtHandleArgs : Release(h)
    \/ \E m \in CapArgs : SetMaxFrames(m)

SpecExt == Init /\ [][NextExt]_vars

\* vocabulary of the properties on libvmi_frame_create_ext
SamplesPerPixel(s) ==
    CASE s \in {"BGRA", "RGBA"} -> 4
      [] s \in {"BGR", "RGB"} -> 3
      [] s = "YCbCr_4_2_2" -> 2

SupportedSampling == {"BGRA", "RGBA", "BGR", "RGB", "YCbCr_4_2_2"}

\* width * height * depth * k / 8 in integer arithmetic
ExpectedMediaSize(init) ==
    (init.video_width * init.video_height * init.video_depth
        * SamplesPerPixel(init.video_smpfmt)) \div 8

GeometrySupplied(init) ==
    /\ init.media_format = "VIDEO"
    /\ init.video_width > 0
    /\ init.video_height > 0
    /\ init.video_depth > 0
    /\ init.video_smpfmt \in SupportedSampling

\* a slot is free, or the table is below the cap
HasRoom(fr, cap) == (\E i \in 1..Len(fr) : fr[i].free) \/ Len(fr) < cap

----------------------------------------------------------------------------
(* C16 *)

\* the init is one that validation refuses
C16_Refused(init) ==
    \/ init.media_format = "AUDIO" /\ init.media_size <= 0
    \/ /\ GeometrySupplied(init)
       /\ init.media_size > 0
       /\ init.media_size # ExpectedMediaSize(init)

\* C16: libvmi_frame_create_ext returns the invalid handle for an AUDIO init
\* with media_size <= 0 and for a VIDEO init with width, height, depth,
\* sampling and media_size all above 0 and media_size different from
\* width*height*pixel_bits/8; no slot is created, reused or modified and the
\* next-handle counter does not move.
C16_RefusedBeforeAcquire ==
    (call.op = "create_ext" /\ C16_Refused(call.arg)) =>
        /\ call.ret = LIBVMI_INVALID_HANDLE
        /\ frames = pre.frames
        /\ nextHandle = pre.next

\* a video init with a wrong media size was refused while a free slot was
\* there to be reused
C16_Witness ==
    /\ call.op = "create_ext"
    /\ C16_Refused(call.arg)
    /\ call.arg.media_format = "VIDEO"
    /\ call.ret = LIBVMI_INVALID_HANDLE
    /\ \E i \in 1..Len(pre.frames) : pre.frames[i].free

----------------------------------------------------------------------------
(* C17 *)

\* C17: for a VIDEO init with width, height, depth > 0, a supported sampling
\* format and no media_size, libvmi_frame_create_ext computes
\* width*height*depth*k/8 (k = 4 for BGRA/RGBA, 3 for BGR/RGB, 2 for
\* YCbCr 4:2:2), stores it in the frame headers and in init, and returns a
\* valid handle when the pool has room; 1920x1080 at depth 8 in YCbCr 4:2:2
\* gives 4147200; an init whose media_size is that value is accepted as it is.
C17_DerivedMediaSize ==
    (call.op = "create_ext" /\ GeometrySupplied(call.arg)) =>
        /\ call.arg.media_size <= 0 =>
               /\ call.init = [call.arg EXCEPT
                                  !.media_size = ExpectedMediaSize(call.arg)]
               /\ call.fh.mediasize = ExpectedMediaSize(call.arg)
               /\ HasRoom(pre.frames, maxFrames) =>
                      call.ret # LIBVMI_INVALID_HANDLE /\ IsLive(frames, call.ret)
               /\ (/\ call.arg.video_width = 1920
                   /\ call.arg.video_height = 1080
                   /\ call.arg.video_depth = 8
                   /\ call.arg.video_smpfmt = "YCbCr_4_2_2") =>
                      call.init.media_size = 4147200
        /\ call.arg.media_size = ExpectedMediaSize(call.arg) =>
               /\ call.init = call.arg
               /\ call.fh.mediasize = call.arg.media_size
               /\ HasRoom(pre.frames, maxFrames) =>
                      call.ret # LIBVMI_INVALID_HANDLE /\ IsLive(frames, call.ret)

\* the 1920x1080 frame was created without a media size, in a slot that had
\* been used before
C17_Witness ==
    /\ call.op = "create_ext"
    /\ call.arg = VideoInit(<<1920, 1080, 8>>, "YCbCr_4_2_2", 0)
    /\ call.ret # LIBVMI_INVALID_HANDLE
    /\ call.init.media_size = 4147200
    /\ Len(pre.frames) = Len(frames)

----------------------------------------------------------------------------
(* C18 *)

\* C18: libvmi_frame_addref with a handle that is not the handle of an in-use
\* frame (never issued, released to 0, or the sentinel) returns -1 and leaves
\* the refcount, free flag and handle of every slot unchanged; the refcount
\* of a free slot is never raised.
C18_AddrefUnknownIsNoOp ==
    (call.op = "addref" /\ ~IsLive(pre.frames, call.arg)) =>
        /\ call.ret = -1
        /\ frames = pre.frames

----------------------------------------------------------------------------
(* Pin accessors of a module *)

libvMI_get_input_count(mods, hModule) == Len(mods[hModule].inputs)

libvMI_get_output_count(mods, hModule) == Len(mods[hModule].outputs)

\* the accessor with the index counted from 1
libvMI_get_input_handle_from1(mods, hModule, index) ==
    IF index >= 1 /\ index <= Len(mods[hModule].inputs)
    THEN mods[hModule].inputs[index].handle
    ELSE LIBVMI_INVALID_HANDLE

\* libvMI_get_input_handle(module, index): getInputs()->at(index) throws
\* std::out_of_range for an index outside 0..size-1 (a negative int becomes a
\* size_t above every size); the exception is caught and ret keeps the
\* invalid handle
libvMI_get_input_handle(mods, hModule, index) ==
    IF index >= 0 /\ index < Len(mods[hModule].inputs)
    THEN mods[hModule].inputs[index + 1].handle
    ELSE LIBVMI_INVALID_HANDLE

libvMI_get_output_handle(mods, hModule, index) ==
    IF index >= 0 /\ index < Len(mods[hModule].outputs)
    THEN mods[hModule].outputs[index + 1].handle
    ELSE LIBVMI_INVALID_HANDLE

\* configurations given to libvMI_create_module_ext in SpecReg: those of
\* ConfigArgs, and one with tokens that are skipped and two input pins that
\* differ
RegConfigArgs ==
    ConfigArgs \cup
        { <<TokBare, TokIn, TokPar, TokEmpty, TokIn, TokPar2, TokTriple, TokOut>> }

\* pin indexes asked for: below 0, every index of a pin, and beyond
IndexArgs == -1..MaxPins

\* an accessor call: it reads the registry and changes nothing
Accessor(op, m, index, ret) ==
    /\ m \in 1..Len(modules)
    /\ call' = SendCall(op, m, 0, index, ret)
    /\ pre' = Snapshot
    /\ UNCHANGED <<frames, nextHandle, maxFrames, modules, issued, capEpoch,
                   parse, sending, threads>>

GetInputCount(m) ==
    Accessor("get_input_count", m, 0, libvMI_get_input_count(modules, m))

GetOutputCount(m) ==
    Accessor("get_output_count", m, 0, libvMI_get_output_count(modules, m))

GetInputHandle(m, index) ==
    Accessor("get_input_handle", m, index,
             libvMI_get_input_handle(modules, m, index))

GetOutputHandle(m, index) ==
    Accessor("get_output_handle", m, index,
             libvMI_get_output_handle(modules, m, index))

NextReg ==
    \/ \E tokens \in RegConfigArgs : RegCreate(tokens)
    \/ \E m \in 1..Len(modules) : Close(m)
    \/ \E m \in 1..Len(modules) : GetInputCount(m)
    \/ \E m \in 1..Len(modules) : GetOutputCount(m)
    \/ \E m \in 1..Len(modules), index \in IndexArgs : GetInputHandle(m, index)
    \/ \E m \in 1..Len(modules), index \in IndexArgs : GetOutputHandle(m, index)

SpecReg == Init /\ [][NextReg]_vars

\* vocabulary: the pin groups of a configuration, read off its tokens
AnyDelimiter(t) == IsDelimiter(t, "in_type") \/ IsDelimiter(t, "out_type")

DelimiterCount(tokens, key) ==
    Cardinality({p \in 1..Len(tokens) : IsDelimiter(tokens[p], key)})

\* position of the n-th well-formed token with this key
NthDelimiter(tokens, key, n) ==
    CHOOSE p \in 1..Len(tokens) :
        /\ IsDelimiter(tokens[p], key)
        /\ Cardinality({q \in 1..p : IsDelimiter(tokens[q], key)}) = n

\* the well-formed tokens from the delimiter at p up to the next delimiter
GroupTexts(tokens, p) ==
    LET later == {q \in (p + 1)..Len(tokens) : AnyDelimiter(tokens[q])}
        last  == IF later = {} THEN Len(tokens) ELSE Min(later) - 1
    IN  TextsOf(SubSeq(tokens, p, last), WellFormed)

\* pin number i (from 0) of the pins made for key, as the accessor must show it
C19_IsNthPin(pins, tokens, key, i, ret) ==
    /\ ret # LIBVMI_INVALID_HANDLE
    /\ pins[i + 1].handle = ret
    /\ \A j \in 1..Len(pins) : pins[j].handle = ret => j = i + 1
    /\ pins[i + 1].config
           = Terminated(GroupTexts(tokens, NthDelimiter(tokens, key, i + 1)))

----------------------------------------------------------------------------
(* C19 *)

\* C19: for a module created from a configuration with k well-formed in_type=
\* tokens and m well-formed out_type= tokens, libvMI_get_input_count returns
\* k and libvMI_get_output_count returns m; libvMI_get_input_handle(i) and
\* libvMI_get_output_handle(i) return the handle of the i-th pin in
\* configuration order for 0 <= i < count and the invalid handle for every
\* other index, negative ones included.
C19_PinAccessors ==
    LET entry  == pre.modules[call.mod]
        tokens == entry.preconfig
        k      == DelimiterCount(tokens, "in_type")
        m      == DelimiterCount(tokens, "out_type")
    IN  /\ call.op = "get_input_count" => call.ret = k
        /\ call.op = "get_output_count" => call.ret = m
        /\ call.op = "get_input_handle" =>
               IF call.arg \in 0..(k - 1)
               THEN C19_IsNthPin(entry.inputs, tokens, "in_type", call.arg, call.ret)
               ELSE call.ret = LIBVMI_INVALID_HANDLE
        /\ call.op = "get_output_handle" =>
               IF call.arg \in 0..(m - 1)
               THEN C19_IsNthPin(entry.outputs, tokens, "out_type", call.arg, call.ret)
               ELSE call.ret = LIBVMI_INVALID_HANDLE

\* the handle of the second input pin was asked of a module whose
\* configuration has tokens that are skipped
C19_Witness ==
    /\ call.op = "get_input_handle"
    /\ call.arg = 1
    /\ call.ret # LIBVMI_INVALID_HANDLE
    /\ \E p \in 1..Len(pre.modules[call.mod].preconfig) :
           ~WellFormed(pre.modules[call.mod].preconfig[p])

----------------------------------------------------------------------------
(* C20 *)

\* the buckets of st other than the one named by cur are those of old
C20_OthersKept(old, st, cur) ==
    /\ cur[1] # "module" => st.module = old.module
    /\ \A i \in 1..Len(old.inputs) :
           cur # <<"in", i>> => st.inputs[i] = old.inputs[i]
    /\ \A i \in 1..Len(old.outputs) :
           cur # <<"out", i>> => st.outputs[i] = old.outputs[i]

C20_Bucket(st, cur) ==
    IF cur[1] = "module" THEN st.module
    ELSE IF cur[1] = "in" THEN st.inputs[cur[2]] ELSE st.outputs[cur[2]]

\* one turn of the loop, on token t, from state old to state st
C20_Turn(old, st, t, seen) ==
    /\ st.cur # old.cur => AnyDelimiter(t)
    /\ IsDelimiter(t, "in_type") =>
           /\ Len(st.inputs) = Len(old.inputs) + 1
           /\ Len(st.outputs) = Len(old.outputs)
           /\ st.cur = <<"in", Len(st.inputs)>>
           /\ BucketTexts(st.inputs[Len(st.inputs)]) = <<t.text>>
           /\ C20_OthersKept(old, st, st.cur)
    /\ IsDelimiter(t, "out_type") =>
           /\ Len(st.outputs) = Len(old.outputs) + 1
           /\ Len(st.inputs) = Len(old.inputs)
           /\ st.cur = <<"out", Len(st.outputs)>>
           /\ BucketTexts(st.outputs[Len(st.outputs)]) = <<t.text>>
           /\ C20_OthersKept(old, st, st.cur)
    /\ (WellFormed(t) /\ ~AnyDelimiter(t)) =>
           /\ st.cur = old.cur
           /\ Len(st.inputs) = Len(old.inputs)
           /\ Len(st.outputs) = Len(old.outputs)
           /\ BucketTexts(C20_Bucket(st, st.cur))
                  = Append(BucketTexts(C20_Bucket(old, old.cur)), t.text)
           /\ C20_OthersKept(old, st, st.cur)
    /\ (WellFormed(t) /\ ~seen) =>
           BucketTexts(st.module) = Append(BucketTexts(old.module), t.text)
    /\ seen => st.module = old.module

\* C20: in the configuration parser the active bucket changes only at a
\* well-formed in_type= or out_type= token, which opens a new bucket at the
\* end of the input (resp. output) list and is that bucket's first token;
\* every other well-formed token is appended to the bucket active at that
\* point; tokens before the first delimiter go to the module bucket, and once
\* a delimiter has been seen the module bucket receives nothing more.
C20_ActiveBucket ==
    [][ C20_Turn(parse.st, parse'.st, parse.tokens[parse.pos],
                 \E q \in 1..parse.pos : AnyDelimiter(parse.tokens[q])) ]_vars

\* the second out_type= token of ExampleConfig has just opened its bucket
C20_Witness ==
    /\ parse.tokens = ExampleConfig
    /\ parse.pos > 1
    /\ AnyDelimiter(parse.tokens[parse.pos - 1])
    /\ parse.st.cur = <<"out", 2>>
    /\ parse.st.module # <<>>

----------------------------------------------------------------------------
(* C21 *)

\* C21: a configuration token that is empty or does not split on '=' into
\* exactly two parts is skipped: the turn of the loop leaves every bucket, the
\* two bucket lists and the active bucket as they were, also when the key of
\* the token is in_type or out_type, and the loop goes on to the next token.
C21_MalformedSkipped ==
    [][ ~WellFormed(parse.tokens[parse.pos]) =>
            /\ parse'.st = parse.st
            /\ parse'.pos = parse.pos + 1
            /\ parse'.tokens = parse.tokens ]_vars

\* a token keyed in_type or out_type that does not have two parts came after
\* a pin was opened, and the token after it went to that pin's bucket
C21_Witness ==
    /\ ParseDone
    /\ Len(parse.tokens) = 3
    /\ IsDelimiter(parse.tokens[1], "in_type")
    /\ parse.tokens[2] \in {TokBare, TokTriple}
    /\ WellFormed(parse.tokens[3]) /\ ~AnyDelimiter(parse.tokens[3])
    /\ Len(parse.st.inputs) = 1
    /\ parse.st.outputs = <<>>
    /\ BucketTexts(parse.st.inputs[1]) = <<parse.tokens[1].text, parse.tokens[3].text>>

----------------------------------------------------------------------------
(* C22 *)

\* C22: for a VIDEO init whose sampling format is unknown or unset, the media
\* size is never derived: with no media_size supplied, no frame is handed out
\* with a media size computed from width, height and depth (the headers keep
\* their unset size and init is left as given); with a media_size supplied,
\* a frame handed out carries exactly that size.
C22_UnknownSamplingNotDerived ==
    (/\ call.op = "create_ext"
     /\ call.arg.media_format = "VIDEO"
     /\ call.arg.video_smpfmt \notin SupportedSampling
     /\ call.ret # LIBVMI_INVALID_HANDLE) =>
        IF call.arg.media_size <= 0
        THEN /\ call.fh.mediasize = CFrameHeaders_new.mediasize
             /\ call.init = call.arg
        ELSE /\ call.fh.mediasize = call.arg.media_size
             /\ call.init = call.arg

----------------------------------------------------------------------------
(* libvMI_send beside another thread.  libvMI_send takes the pool's mutex  *)
(* twice: inside libvMI_frame_get for its test, and inside the addref of   *)
(* CvMIOutput::send.  SpecRace runs these as two steps of the sending      *)
(* thread; the other application thread releases frames it holds a         *)
(* reference on, and each output pin's send task drains its queue.         *)

\* libvMI_send up to its call of CvMIOutput::send: the output pin is looked
\* up, then the frame.  done tells that the function has returned (ret); when
\* not done the thread is about to call send(hFrame) on output o.
libvMI_send_check(mods, fr, hModule, hOutput, hFrame) ==
    LET o == libvMI_get_output(mods[hModule].outputs, hOutput)
    IN  IF o = 0
        THEN [done |-> TRUE, ret |-> 0, out |-> 0]
        ELSE IF libvMI_frame_get(fr, hFrame) # 0
        THEN [done |-> FALSE, ret |-> 0, out |-> o]
        ELSE [done |-> TRUE, ret |-> -1, out |-> o]

\* frames are sent whose handle libvmi_frame_create has returned, in use or
\* released since
IssuedHandles == {issued[i] : i \in 1..Len(issued)}

SendBegin(m, hOutput, hFrame) ==
    LET res == libvMI_send_check(modules, frames, m, hOutput, hFrame)
    IN  /\ sending.pc = "idle"
        /\ m \in 1..Len(modules)
        /\ hFrame \in IssuedHandles
        /\ IF res.done
           THEN /\ call' = SendCall("send", m, hOutput, hFrame, res.ret)
                /\ pre' = Snapshot
                /\ UNCHANGED sending
           ELSE /\ sending' = [pc |-> "checked", mod |-> m, out |-> res.out,
                               frame |-> hFrame]
                /\ UNCHANGED <<call, pre>>
        /\ UNCHANGED <<frames, nextHandle, maxFrames, modules, issued, capEpoch,
                       parse, threads>>

\* currentOutput->send(hFrame); return 0
SendEnd ==
    /\ sending.pc = "checked"
    /\ LET m   == sending.mod
           out == modules[m].outputs[sending.out]
           res == CvMIOutput_send(out, frames, sending.frame)
       IN  /\ InBounds(res.frames)
           /\ Len(res.out.queue) <= MaxQueue
           /\ modules' = [modules EXCEPT ![m].outputs[sending.out] = res.out]
           /\ frames' = res.frames
           /\ call' = SendCall("send", m, out.handle, sending.frame, 0)
           /\ pre' = Snapshot
    /\ sending' = NoSend
    /\ UNCHANGED <<nextHandle, maxFrames, issued, capEpoch, parse, threads>>

NextRace ==
    \/ \E tokens \in ConfigArgs : CreateModule(tokens)
    \/ LifeCreate
    \/ \E m \in 1..Len(modules), h \in LifeHandleArgs :
           \E p \in OutputHandles(m) : SendBegin(m, p, h)
    \/ SendEnd
    \/ \E h \in LifeHandleArgs : OwnedRelease(h)
    \/ \E m \in 1..Len(modules), o \in 1..MaxPins : SendTask(m, o)

SpecRace == Init /\ [][NextRace]_vars

----------------------------------------------------------------------------
(* C23 *)

\* C23: when libvMI_send runs on an existing output pin beside a thread that
\* releases the frame, either send returns -1 and leaves the queues as they
\* were, or it returns 0 and the frame it has put in the queue is in use with
\* its handle and one reference for each place it waits in, until the send
\* task has transmitted it: no queue holds a handle whose slot is free.
C23_SendOrRelease ==
    /\ (call.op = "send" /\ call.ret = -1) => modules = pre.modules
    /\ \A h \in LifeHandleArgs :
           QueuedAt(modules, h) # {} =>
               /\ IsLive(frames, h)
               /\ frames[SlotOf(frames, h)].ref >= Cardinality(QueuedAt(modules, h))

----------------------------------------------------------------------------
(* Threads on the frame pool.  libvmi_frame_create, libvmi_frame_addref    *)
(* and libvmi_frame_release each begin by taking g_vMIFramesMutex          *)
(* (std::unique_lock, released when the function returns).  SpecThreads    *)
(* runs a call as two steps of its thread: Enter takes the mutex and reads *)
(* the table, the counter and the cap; Leave writes what the function      *)
(* computes from what was read, and gives the mutex back.                  *)

\* std::unique_lock<std::mutex> lock(...) that takes no mutex
unique_lock_none(owner) == TRUE

\* std::unique_lock<std::mutex> lock(g_vMIFramesMutex) returns when no thread
\* holds the mutex
unique_lock(owner) == owner = 0

\* the body of a pool function on the state it has read
PoolCall(op, fr, nh, cap, h) ==
    CASE op = "create"  -> libvmi_frame_create(fr, nh, cap)
      [] op = "addref"  -> [frames |-> libvmi_frame_addref(fr, h).frames,
                            next   |-> nh,
                            ret    |-> libvmi_frame_addref(fr, h).ret]
      [] op = "release" -> [frames |-> libvmi_frame_release(fr, h).frames,
                            next   |-> nh,
                            ret    |-> libvmi_frame_release(fr, h).ret]

\* the calls of a thread: create, and addref / release of a handle that
\* libvmi_frame_create has returned
ThreadCalls ==
    {<<"create", 0>>}
        \cup {<<op, h>> : op \in {"addref", "release"}, h \in IssuedHandles}

Enter(t, op, h) ==
    LET res == PoolCall(op, frames, nextHandle, maxFrames, h)
    IN  /\ threads.local[t].pc = "idle"
        /\ unique_lock(threads.owner)
        /\ res.next <= MaxThreadHandle
        /\ InBounds(res.frames)
        /\ threads' = [threads EXCEPT
                          !.owner = t,
                          !.local[t] = [pc |-> "locked", op |-> op, arg |-> h,
                                        frames |-> frames, next |-> nextHandle,
                                        cap |-> maxFrames]]
        /\ UNCHANGED <<frames, nextHandle, maxFrames, modules, call, pre, issued,
                       capEpoch, parse, sending>>

\* references handed out and not given back, after a call has returned
Expect(expect, op, h, ret) ==
    CASE op = "create"  -> IF ret \in DOMAIN expect
                           THEN [expect EXCEPT ![ret] = 1] ELSE expect
      [] op = "addref"  -> IF expect[h] >= 1
                           THEN [expect EXCEPT ![h] = @ + 1] ELSE expect
      [] op = "release" -> IF expect[h] >= 1
                           THEN [expect EXCEPT ![h] = @ - 1] ELSE expect

Leave(t) ==
    LET l   == threads.local[t]
        res == PoolCall(l.op, l.frames, l.next, l.cap, l.arg)
    IN  /\ l.pc = "locked"
        /\ frames' = res.frames
        /\ nextHandle' = res.next
        /\ threads' = [threads EXCEPT
                          !.owner = 0,
                          !.local[t] = Idle,
                          !.expect = Expect(@, l.op, l.arg, res.ret)]
        /\ call' = Call(l.op, l.arg, res.ret, "other")
        /\ pre' = [frames |-> l.frames, next |-> l.next, modules |-> modules]
        /\ issued' = IF l.op = "create" /\ res.ret # LIBVMI_INVALID_HANDLE
                     THEN Append(issued, res.ret) ELSE issued
        /\ capEpoch' = IF l.op = "create" /\ capEpoch = "open"
                       THEN "fixed" ELSE capEpoch
        /\ UNCHANGED <<maxFrames, modules, parse, sending>>

\* the cap is set before the threads start
ThreadsSetMaxFrames(m) ==
    /\ m >= 0
    /\ capEpoch = "open"
    /\ \A t \in Threads : threads.local[t].pc = "idle"
    /\ SetMaxFrames(m)

NextThreads ==
    \/ \E m \in CapArgs : ThreadsSetMaxFrames(m)
    \/ \E t \in Threads : \E c \in ThreadCalls : Enter(t, c[1], c[2])
    \/ \E t \in Threads : Leave(t)

SpecThreads == Init /\ [][NextThreads]_vars

----------------------------------------------------------------------------
(* C24 *)

\* handles the threads hold references on
Held == {h \in DOMAIN threads.expect : threads.expect[h] >= 1}

\* C24: under any interleaving of libvmi_frame_create, libvmi_frame_addref
\* and libvmi_frame_release calls of several threads each call takes effect
\* at once: no two creates return the same handle or take the same slot, the
\* slot count never exceeds the cap, and no addref or release on a handle in
\* use is lost: its counter is 1 + the addrefs - the releases that have
\* returned, as long as that is at least 1.
C24_CallsAtomic ==
    /\ \A i, j \in 1..Len(issued) : i # j => issued[i] # issued[j]
    /\ \A h \in Held :
           /\ Cardinality({i \in 1..Len(frames) : frames[i].handle = h}) = 1
           /\ IsLive(frames, h)
           /\ frames[SlotOf(frames, h)].ref = threads.expect[h]
    /\ Cardinality(Held) = Cardinality(InUse(frames))
    /\ Len(frames) <= maxFrames
    /\ call.op \in {"addref", "release"} /\ call.arg \in Held =>
           call.ret = threads.expect[call.arg]

\* two threads have taken frames side by side, and a third reference on one
\* of them has been added by one thread and the first dropped by the other
C24_Witness ==
    /\ Len(issued) = 2
    /\ Len(frames) = 2
    /\ maxFrames = 2
    /\ \E h \in Held : threads.expect[h] = 2
    /\ call.op = "release" /\ call.ret = 1
    /\ \A t \in Threads : threads.local[t].pc = "idle"

----------------------------------------------------------------------------
(* The pool under a cap that is left alone.  SpecStale follows create,     *)
(* addref and release with every handle argument of Spec, the sentinel     *)
(* included, and no call of libvMI_set_parameter.                          *)

NextStale ==
    \/ Create
    \/ \E h \in HandleArgs : Release(h)
    \/ \E h \in HandleArgs : Addref(h)

SpecStale == Init /\ [][NextStale]_vars

----------------------------------------------------------------------------
(* C25 *)

\* handles libvmi_frame_create has returned that are no longer in use: each
\* was released down to 0
Stale(fr) == {h \in IssuedHandles : ~IsLive(fr, h)}

\* C25: once a handle issued by libvmi_frame_create has been released to 0,
\* every later libvmi_frame_addref and libvmi_frame_release of it returns -1
\* and changes nothing, and libvMI_frame_get of it returns NULL, however
\* often its slot has been taken again since; a handle in use resolves to the
\* one slot that was given out with it.
C25_StaleNeverAliases ==
    /\ \A h \in Stale(frames) : libvMI_frame_get(frames, h) = 0
    /\ (call.op \in {"addref", "release"} /\ call.arg \in Stale(pre.frames)) =>
           /\ call.ret = -1
           /\ frames = pre.frames
    /\ \A h \in IssuedHandles \ Stale(frames) :
           /\ ~frames[libvMI_frame_get(frames, h)].free
           /\ Cardinality({i \in 1..Len(frames) : frames[i].handle = h}) = 1

\* the first handle was released, its slot was given out again with a later
\* handle, and a call on the first handle has just returned -1
C25_Witness ==
    /\ Len(issued) >= 2
    /\ issued[1] \in Stale(frames)
    /\ ~frames[1].free /\ frames[1].handle = issued[2]
    /\ call.op \in {"addref", "release"}
    /\ call.arg = issued[1]
    /\ call.ret = -1

----------------------------------------------------------------------------
(* The pool under a cap that changes.  SpecCap follows an application that *)
(* sets the cap at any moment and passes to addref and release the handles *)
(* it was given, in use or released since, and the one to be issued next.  *)

KnownArgs == IssuedHandles \cup {nextHandle}

NextCap ==
    \/ Create
    \/ \E h \in KnownArgs : Release(h)
    \/ \E h \in KnownArgs : Addref(h)
    \/ \E m \in CapArgs : SetMaxFrames(m)

SpecCap == Init /\ [][NextCap]_vars

----------------------------------------------------------------------------
(* C26 *)

\* C26: libvMI_set_parameter(MAX_FRAMES_IN_LIST, m) on a pool of s slots
\* removes and invalidates no slot (the table is as before, CUR_FRAMES_IN_LIST
\* stays s); with a cap m >= 0 no call makes the slot count larger than the
\* larger of the count before the call and m; create still succeeds by taking
\* a free slot, also when the slot count is above the cap, and fails only
\* when no slot is free and the slot count is >= the cap.
C26_CapChangedAtRunTime ==
    /\ call.op = "set_max" =>
           /\ maxFrames = call.arg
           /\ frames = pre.frames
           /\ CUR_FRAMES_IN_LIST = Len(pre.frames)
           /\ \A h \in HandleArgs :
                  libvMI_frame_get(frames, h) = libvMI_frame_get(pre.frames, h)
    /\ maxFrames >= 0 => Len(frames) <= Max({Len(pre.frames), maxFrames})
    /\ (call.op = "create" /\ ~NoFree(pre.frames)) =>
           /\ call.ret # LIBVMI_INVALID_HANDLE
           /\ Len(frames) = Len(pre.frames)
           /\ \E i \in 1..Len(frames) :
                  /\ pre.frames[i].free
                  /\ ~frames[i].free /\ frames[i].handle = call.ret
    /\ (call.op = "create" /\ call.ret = LIBVMI_INVALID_HANDLE) =>
           /\ NoFree(pre.frames)
           /\ Len(pre.frames) >= maxFrames

\* the cap was lowered below the slot count after slots were allocated, and
\* a create has just succeeded by taking a free slot
C26_Witness ==
    /\ capEpoch = "changed"
    /\ maxFrames >= 0
    /\ Len(pre.frames) > maxFrames
    /\ CreateOk
    /\ Len(frames) = Len(pre.frames)

----------------------------------------------------------------------------
(* C27 *)

\* C27: after any sequence of module create and close calls, the handle a
\* create returns differs from the handle returned at the creation of every
\* module open at that moment: no two open modules have the same module
\* handle.
C27_ModuleHandlesUnique ==
    /\ call.op = "create_module" =>
           \A j \in 1..Len(pre.modules) : pre.modules[j].created # call.ret
    /\ \A i, j \in 1..Len(modules) :
           i # j => modules[i].created # modules[j].created

====
